---- MODULE Spec2Model ----
(***************************************************************************)
(* Model of the plan execution engine of src/src/agent.py                  *)
(* (Agent.execute_plan) together with the collaborators it drives:         *)
(* MCPClient (src/src/mcp_client.py) and SubAgent (src/src/sub_agent.py).  *)
(*                                                                         *)
(* Python values are modelled as follows.                                  *)
(*   dict with optional keys  -> a record whose DOMAIN is the key set      *)
(*   dict of parameters       -> a set of <<key, value>> pairs             *)
(*   None / a value v         -> <<>> / <<v>>                              *)
(*   an f-string              -> the sequence of its pieces, so that       *)
(*                               "the message contains X" is membership    *)
(*   an exception             -> [cls |-> class name, msg |-> str(e)]      *)
(***************************************************************************)
EXTENDS Naturals, Sequences, FiniteSets, TLC

VARIABLES
    pc,           \* "idle" | "running" | "returned" | "raised": execute_plan's position
                  \* ("planning": Agent.run is between get_available_tools and
                  \* execute_plan)
    plan,         \* the plan passed to the execute_plan call in progress
    i,            \* number of loop iterations of execute_plan completed
    results,      \* the local list results of execute_plan
    report,       \* <<>> or <<r>>: the value returned by the last execute_plan
    mcp_clients,  \* Agent.mcp_clients: sequence of [name, client], insertion order;
                  \* client is the MCPClient object [process, tools_cache]
    procs,        \* server processes: [started, signalled] counts (Popen / terminate or kill)
    sub_agents,   \* Agent.sub_agents: sequence of SubAgent instance ids
    calls,        \* call_tool invocations of the current execute_plan
    tasks,        \* SubAgent constructions and execute_task calls of the current execute_plan
    prev,         \* <<>> or <<snapshot>>: the outcome of the preceding execute_plan call
                  \* when the same plan is executed a second time
    cl,           \* one MCPClient object driven directly: [process, tools_cache]
    cprocs,       \* the server processes that object has started: sequence of
                  \* "running" | "terminated" | "killed" (kill was called),
                  \* indexed by process handle
    fetched,      \* <<>> or <<catalog>>: the catalog of the first successful
                  \* tools/list fetch since the last disconnect of cl
    origin,       \* <<>> or <<handle>>: the process cl held when it stored
                  \* its present non-empty tools_cache
    last          \* the last operation invoked on cl, on the planner or on the
                  \* Agent's registered clients, and how it ended

vars == <<pc, plan, i, results, report, mcp_clients, procs,
          sub_agents, calls, tasks, prev, cl, cprocs, fetched, origin, last>>

\* the state of the directly driven MCPClient
clientVars == <<cl, cprocs, fetched, origin, last>>

(***************************************************************************)
(* Bounds of the model                                                     *)
(***************************************************************************)
MaxSteps == 2
MaxProcs == 2
MaxRetained == 1

(***************************************************************************)
(* Python helpers                                                          *)
(***************************************************************************)
None == <<>>
Some(v) == <<v>>

\* dict.get(key, default)
Get(d, key, default) == IF key \in DOMAIN d THEN d[key] ELSE default

\* dict.get(key) with the implicit default None
GetOpt(d, key) == IF key \in DOMAIN d THEN Some(d[key]) ELSE None

\* str(v) of an optional string as it appears inside an f-string
Str(o) == IF o = None THEN "None" ELSE o[1]

Contains(msg, piece) == \E k \in 1..Len(msg) : msg[k] = piece

Raise(cls, msg) == [raised |-> TRUE, cls |-> cls, msg |-> msg]
Return(v) == [raised |-> FALSE, value |-> v]

(***************************************************************************)
(* Inputs                                                                  *)
(***************************************************************************)
ConnectorNames == {"x", "y"}

StepPool ==
    { [type |-> "direct", action |-> "a1", description |-> "d1"],
      [type |-> "mcp_tool", action |-> "t1", mcp_server |-> "x",
       parameters |-> {<<"param1", "value1">>}],
      [type |-> "mcp_tool", action |-> "t2", mcp_server |-> "y"],
      [type |-> "mcp_tool", action |-> "t3"],
      [type |-> "sub_agent", action |-> "delegate", task_description |-> "task1"],
      [type |-> "Direct"],
      [action |-> "a3"] }

RECURSIVE SeqsUpTo(_, _)
SeqsUpTo(S, n) ==
    IF n = 0 THEN {<<>>}
    ELSE LET shorter == SeqsUpTo(S, n - 1)
         IN  shorter \cup {Append(s, e) : s \in {t \in shorter : Len(t) = n - 1}, e \in S}

Plans ==
    {[goal |-> "g", steps |-> s] : s \in SeqsUpTo(StepPool, MaxSteps)}
        \cup {[goal |-> "g"]}

\* What the server process does with one request written to it.
IoOutcomes ==
    { [io |-> "reply", response |-> [result |-> [output |-> "ok"]]],
      [io |-> "reply", response |-> [error |-> "boom"]],
      [io |-> "reply", response |-> [id |-> "1"]],
      [io |-> "eof"],
      [io |-> "fault", text |-> "Broken pipe"] }

\* What the remote language-model call of a SubAgent does.
RemoteOutcomes ==
    { [ok |-> TRUE, content |-> "done"],
      [ok |-> TRUE, content |-> ""],
      [ok |-> FALSE, text |-> "api down"] }

\* What the OpenAI client constructor inside SubAgent.__init__ does.
CtorOutcomes == { [ok |-> TRUE], [ok |-> FALSE, text |-> "bad key"] }

(***************************************************************************)
(* MCPClient (src/src/mcp_client.py)                                       *)
(***************************************************************************)
NewClient == [process |-> None, tools_cache |-> <<>>]

SendRequestNoGuard(c, request, o) ==
    CASE o.io = "fault" ->
           Raise("RuntimeError", <<"Error communicating with MCP server: ", o.text>>)
      [] o.io = "eof" -> Return([error |-> "No response from server"])
      [] OTHER -> Return(o.response)

\* MCPClient._send_request on client object c; o is what the server does.
\* `if not self.process: raise ConnectionError(...)` comes before the write
\* to stdin and the read from stdout.
SendRequest(c, request, o) ==
    IF c.process = None
    THEN Raise("ConnectionError", <<"MCP server not connected">>)
    ELSE CASE o.io = "fault" ->
                Raise("RuntimeError", <<"Error communicating with MCP server: ", o.text>>)
           [] o.io = "eof" -> Return([error |-> "No response from server"])
           [] OTHER -> Return(o.response)

\* MCPClient.call_tool on client object c.
CallToolWrap(tool_name, e) ==
    Raise("RuntimeError", <<"Error calling tool ", tool_name, ": ">> \o e.msg)

call_tool(c, tool_name, parameters, o) ==
    LET sent == SendRequest(c, [method |-> "tools/call",
                                params |-> [name |-> tool_name, arguments |-> parameters]], o)
    IN  IF sent.raised THEN CallToolWrap(tool_name, sent)
        ELSE LET response == sent.value
             IN  IF "result" \in DOMAIN response THEN Return(response.result)
                 ELSE IF "error" \in DOMAIN response
                      THEN CallToolWrap(tool_name,
                               Raise("RuntimeError", <<"Tool error: ", response.error>>))
                      ELSE Return(response)

(***************************************************************************)
(* SubAgent (src/src/sub_agent.py)                                         *)
(***************************************************************************)
execute_taskEmptyIsError(task_description, ro) ==
    IF ro.ok /\ ro.content # ""
    THEN [task |-> task_description, result |-> Some(ro.content), status |-> "completed"]
    ELSE [task |-> task_description, result |-> None, status |-> "error",
          error |-> <<"no result">>]

execute_taskDropsMessage(task_description, ro) ==
    IF ro.ok
    THEN [task |-> task_description, result |-> Some(ro.content), status |-> "completed"]
    ELSE [task |-> task_description, result |-> None, status |-> "error"]

execute_task(task_description, ro) ==
    IF ro.ok
    THEN [task |-> task_description, result |-> Some(ro.content), status |-> "completed"]
    ELSE [task |-> task_description, result |-> None, status |-> "error",
          error |-> <<ro.text>>]

(***************************************************************************)
(* Agent (src/src/agent.py)                                                *)
(***************************************************************************)
\* name in self.mcp_clients
InClients(reg, o) == o # None /\ \E k \in 1..Len(reg) : reg[k].name = o[1]

\* self.mcp_clients[name]: the registry entry holding the client object
ClientOfFirst(reg, name) == reg[1]

ClientOf(reg, name) == reg[CHOOSE k \in 1..Len(reg) : reg[k].name = name]

\* self.mcp_clients[name] = client
SetClient(reg, name, c) ==
    IF \E k \in 1..Len(reg) : reg[k].name = name
    THEN [k \in 1..Len(reg) |->
            IF reg[k].name = name THEN [name |-> name, client |-> c] ELSE reg[k]]
    ELSE Append(reg, [name |-> name, client |-> c])

plan_steps == Get(plan, "steps", <<>>)

\* enumerate(plan_steps, 1) after n iterations: the step handled next ...
CurrentStep(n) == plan_steps[n + 1]

\* ... and the index it is given
StepIndexZeroBased(n) == n

StepIndex(n) == n + 1

\* the for loop has no step left
LoopDoneBreakOnError(n, rs, steps) ==
    n >= Len(steps) \/ (Len(rs) > 0 /\ rs[Len(rs)].status = "error")

\* (a return placed inside the loop body)
LoopDoneAfterFirst(n, rs, steps) == n >= Len(steps) \/ n >= 1

LoopDone(n, rs, steps) == n >= Len(steps)

\* the if / elif / else chain on action_type
BranchDefaultsToDirect(action_type) ==
    CASE action_type = "mcp_tool" -> "mcp_tool"
      [] action_type = "sub_agent" -> "sub_agent"
      [] OTHER -> "direct"

Branch(action_type) ==
    CASE action_type = "mcp_tool" -> "mcp_tool"
      [] action_type = "sub_agent" -> "sub_agent"
      [] action_type = "direct" -> "direct"
      [] OTHER -> "unknown"

NotConnectedErrorNoName(mcp_server) == <<"MCP server not connected">>

NotConnectedError(mcp_server) == <<"MCP server '", Str(mcp_server), "' not connected">>

UnknownTypeError(action_type) == <<"Unknown action type: ", action_type>>

DirectResultNoAction(action) == <<"Direct action">>

DirectResult(action) == <<"Direct action: ", action>>

\* except Exception: every exception class the collaborators raise derives from it
CatchesValueErrorOnly(cls) == cls = "ValueError"

Catches(cls) == cls \in {"ValueError", "RuntimeError", "ConnectionError", "OpenAIError"}

SuccessResult(idx, action, value) ==
    [step |-> idx, action |-> action, status |-> "success", result |-> value]

ErrorResultWithPayload(idx, action, e) ==
    [step |-> idx, action |-> action, status |-> "error", result |-> None,
     error |-> e.msg]

ErrorResult(idx, action, e) ==
    [step |-> idx, action |-> action, status |-> "error", error |-> e.msg]

\* results = [] at the entry of execute_plan; rs is the list of the preceding call
EntryResultsKept(rs) == rs

EntryResults(rs) == <<>>

\* SubAgent(self.api_key, self.model): a new object, distinct from those in sa
NewSubAgentPooled(sa) == 1

NewSubAgent(sa) == Len(sa) + 1

\* all(r.get("status") == "success" for r in results)
AllSuccessAny(rs) == \E k \in 1..Len(rs) : Get(rs[k], "status", "") = "success"

AllSuccess(rs) == \A k \in 1..Len(rs) : Get(rs[k], "status", "") = "success"

\* the dict returned by execute_plan
ReportNormalisesPlan(p, rs) ==
    [plan |-> [goal |-> Get(p, "goal", ""), steps |-> Get(p, "steps", <<>>)],
     results |-> rs, success |-> AllSuccess(rs)]

Report(p, rs) == [plan |-> p, results |-> rs, success |-> AllSuccess(rs)]

(***************************************************************************)
(* State machine                                                           *)
(***************************************************************************)
Init ==
    /\ pc = "idle"
    /\ plan = [goal |-> "g"]
    /\ i = 0
    /\ results = <<>>
    /\ report = None
    /\ mcp_clients = <<>>
    /\ procs = [started |-> 0, signalled |-> 0]
    /\ sub_agents = <<>>
    /\ calls = <<>>
    /\ tasks = <<>>
    /\ prev = None
    /\ cl = NewClient
    /\ cprocs = <<>>
    /\ fetched = None
    /\ origin = None
    /\ last = [op |-> "init"]

engineVars == <<pc, plan, i, results, report, sub_agents, calls, tasks>>

\* Agent.connect_mcp(name, ...): MCPClient(...), client.connect(), registration.
\* Either Popen raises, or it starts a process and the initialize handshake
\* raises, or the handshake gets a response. When connect raises, connect_mcp
\* raises before the registration and the client object is dropped.
\* What subprocess.Popen does.
SpawnOutcomes == { [ok |-> TRUE], [ok |-> FALSE, text |-> "No such file or directory"] }

ConnectErrorKeepsClass(e) == e

\* except Exception as e: raise ConnectionError(f"Failed to connect to MCP server: {e}")
ConnectError(e) ==
    Raise("ConnectionError", <<"Failed to connect to MCP server: ">> \o e.msg)

connect_mcpRegistersFirst(reg, name, pid, sp, o) ==
    LET c == [NewClient EXCEPT !.process = Some(pid)]
        hs == SendRequest(c, [method |-> "initialize"], o)
    IN  IF ~sp.ok
        THEN [outcome |-> ConnectError(Raise("OSError", <<sp.text>>)),
              clients |-> SetClient(reg, name, NewClient), spawned |-> 0]
        ELSE [outcome |-> IF hs.raised THEN ConnectError(hs) ELSE Return(None),
              clients |-> SetClient(reg, name, c), spawned |-> 1]

\* Agent.connect_mcp(name, server_path, args) on registry reg, when Popen
\* does sp, the process it starts gets handle pid and the handshake meets o:
\*   client = MCPClient(server_path, args or []); client.connect()
\*   self.mcp_clients[name] = client
\* An exception of connect() leaves before the assignment.
connect_mcp(reg, name, pid, sp, o) ==
    LET c == [NewClient EXCEPT !.process = Some(pid)]
        hs == SendRequest(c, [method |-> "initialize"], o)
    IN  IF ~sp.ok
        THEN [outcome |-> ConnectError(Raise("OSError", <<sp.text>>)),
              clients |-> reg, spawned |-> 0]
        ELSE IF hs.raised
             THEN [outcome |-> ConnectError(hs), clients |-> reg, spawned |-> 1]
             ELSE [outcome |-> Return(None), clients |-> SetClient(reg, name, c),
                   spawned |-> 1]

ConnectMcp ==
    /\ pc = "idle"
    /\ \E name \in ConnectorNames, sp \in SpawnOutcomes, o \in IoOutcomes :
         LET r == connect_mcp(mcp_clients, name, procs.started + 1, sp, o)
         IN  /\ r.spawned = 1 => procs.started < MaxProcs
             /\ procs' = [procs EXCEPT !.started = @ + r.spawned]
             /\ mcp_clients' = r.clients
    /\ UNCHANGED <<engineVars, prev, clientVars>>

\* MCPClient.disconnect: terminate (and kill when the wait fails), then
\* process = None and tools_cache = []
DisconnectKeepsCache(c) == [c EXCEPT !.process = None]

Disconnect(c) == IF c.process = None THEN c ELSE NewClient

\* Agent.cleanup: disconnect of every registered client
Cleanup ==
    /\ pc = "idle"
    /\ LET held == {k \in 1..Len(mcp_clients) : mcp_clients[k].client.process # None}
       IN  /\ mcp_clients' = [k \in 1..Len(mcp_clients) |->
                                [mcp_clients[k] EXCEPT !.client = Disconnect(@)]]
           /\ procs' = [procs EXCEPT !.signalled = @ + Cardinality(held)]
    /\ UNCHANGED <<engineVars, prev, clientVars>>

\* Entry of Agent.execute_plan(plan): results = [], plan_steps = plan.get("steps", []).
\* sub_agents only grows, so calls are made while it holds fewer than MaxRetained.
ExecutePlan ==
    /\ pc = "idle"
    /\ Len(sub_agents) < MaxRetained
    /\ \E p \in Plans : plan' = p
    /\ pc' = "running"
    /\ i' = 0
    /\ results' = EntryResults(results)
    /\ report' = None
    /\ calls' = <<>>
    /\ tasks' = <<>>
    /\ UNCHANGED <<mcp_clients, procs, sub_agents, prev, clientVars>>

\* The end of one loop iteration whose try body ended with outcome r: the body's
\* own append on a normal end, the except clause on a raised exception.
FinishSkipsOnError(r) ==
    LET step == CurrentStep(i)
        action == Get(step, "action", "")
    IN  IF ~r.raised
        THEN /\ results' = Append(results, SuccessResult(StepIndex(i), action, r.value))
             /\ i' = i + 1
             /\ pc' = pc
        ELSE /\ i' = i + 1
             /\ UNCHANGED <<results, pc>>

FinishRetriesOnError(r) ==
    LET step == CurrentStep(i)
        action == Get(step, "action", "")
    IN  IF ~r.raised
        THEN /\ results' = Append(results, SuccessResult(StepIndex(i), action, r.value))
             /\ i' = i + 1
             /\ pc' = pc
        ELSE UNCHANGED <<results, i, pc>>

Finish(r) ==
    LET step == CurrentStep(i)
        action == Get(step, "action", "")
    IN  IF ~r.raised
        THEN /\ results' = Append(results, SuccessResult(StepIndex(i), action, r.value))
             /\ i' = i + 1
             /\ pc' = pc
        ELSE IF Catches(r.cls)
             THEN /\ results' = Append(results, ErrorResult(StepIndex(i), action, r))
                  /\ i' = i + 1
                  /\ pc' = pc
             ELSE /\ pc' = "raised"
                  /\ UNCHANGED <<results, i>>

AtStep(kind) ==
    /\ pc = "running"
    /\ ~LoopDone(i, results, plan_steps)
    /\ Branch(Get(CurrentStep(i), "type", "")) = kind

\* action_type == "mcp_tool"
StepMcpTool ==
    /\ AtStep("mcp_tool")
    /\ LET step == CurrentStep(i)
           action == Get(step, "action", "")
           parameters == Get(step, "parameters", {})
           mcp_server == GetOpt(step, "mcp_server")
       IN  IF InClients(mcp_clients, mcp_server)
           THEN \E o \in IoOutcomes :
                  LET e == ClientOf(mcp_clients, mcp_server[1])
                      r == call_tool(e.client, action, parameters, o)
                  IN  /\ calls' = Append(calls, [step |-> StepIndex(i), client |-> e.name,
                                                 tool_name |-> action,
                                                 parameters |-> parameters,
                                                 outcome |-> r])
                      /\ Finish(r)
           ELSE /\ calls' = calls
                /\ Finish(Raise("ValueError", NotConnectedError(mcp_server)))
    /\ UNCHANGED <<plan, report, mcp_clients, procs, sub_agents, tasks, prev, clientVars>>

\* action_type == "sub_agent"
StepSubAgent ==
    /\ AtStep("sub_agent")
    /\ LET step == CurrentStep(i)
       IN  \E k \in CtorOutcomes :
             IF k.ok
             THEN \E ro \in RemoteOutcomes :
                    LET task == Get(step, "task_description", "")
                        id == NewSubAgent(sub_agents)
                        sub_result == execute_task(task, ro)
                    IN  /\ tasks' = Append(tasks, [step |-> StepIndex(i), agent |-> Some(id),
                                                   task |-> task, remote |-> Some(ro),
                                                   outcome |-> Some(sub_result)])
                        /\ Finish(Return(sub_result))
                        /\ sub_agents' = Append(sub_agents, id)
             ELSE /\ tasks' = Append(tasks, [step |-> StepIndex(i), agent |-> None,
                                             task |-> "", remote |-> None,
                                             outcome |-> None])
                  /\ Finish(Raise("OpenAIError", <<k.text>>))
                  /\ UNCHANGED sub_agents
    /\ UNCHANGED <<plan, report, mcp_clients, procs, calls, prev, clientVars>>

\* action_type == "direct"
StepDirect ==
    /\ AtStep("direct")
    /\ Finish(Return(DirectResult(Get(CurrentStep(i), "action", ""))))
    /\ UNCHANGED <<plan, report, mcp_clients, procs, sub_agents, calls, tasks,
                   prev, clientVars>>

\* else: raise ValueError(f"Unknown action type: {action_type}")
StepUnknown ==
    /\ AtStep("unknown")
    /\ Finish(Raise("ValueError",
                    UnknownTypeError(Get(CurrentStep(i), "type", ""))))
    /\ UNCHANGED <<plan, report, mcp_clients, procs, sub_agents, calls, tasks,
                   prev, clientVars>>

\* return {"plan": plan, "results": results, "success": all(...)}
ReturnReport ==
    /\ pc = "running"
    /\ LoopDone(i, results, plan_steps)
    /\ report' = Some(Report(plan, results))
    /\ pc' = "returned"
    /\ UNCHANGED <<plan, i, results, mcp_clients, procs, sub_agents, calls, tasks,
                   prev, clientVars>>

\* The caller is done with the outcome of execute_plan; the call's locals are gone.
CallerResumes ==
    /\ pc \in {"returned", "raised"}
    /\ pc' = "idle"
    /\ plan' = [goal |-> "g"]
    /\ i' = 0
    /\ results' = <<>>
    /\ report' = None
    /\ calls' = <<>>
    /\ tasks' = <<>>
    /\ UNCHANGED <<mcp_clients, procs, sub_agents, prev, clientVars>>

Next ==
    \/ ConnectMcp
    \/ Cleanup
    \/ ExecutePlan
    \/ StepMcpTool
    \/ StepSubAgent
    \/ StepDirect
    \/ StepUnknown
    \/ ReturnReport
    \/ CallerResumes

Spec == Init /\ [][Next]_vars

\* execute_plan is sequential code: while it is running, its next statement is
\* executed.
EngineStep == StepMcpTool \/ StepSubAgent \/ StepDirect \/ StepUnknown \/ ReturnReport

\* One invocation of execute_plan on an Agent set up by connect_mcp.
NextOnce ==
    \/ ConnectMcp
    \/ ExecutePlan
    \/ StepMcpTool
    \/ StepSubAgent
    \/ StepDirect
    \/ StepUnknown
    \/ ReturnReport

SpecLive == Init /\ [][NextOnce]_vars /\ WF_vars(EngineStep)

(***************************************************************************)
(* The same Agent asked twice to execute the same plan, with deterministic *)
(* collaborators.  prev keeps what the first invocation returned and which *)
(* collaborator calls it made.                                             *)
(***************************************************************************)
PrevCalls == IF prev = None THEN <<>> ELSE prev[1].calls
PrevTasks == IF prev = None THEN <<>> ELSE prev[1].tasks

\* Deterministic collaborators: a connector answers the same request (tool
\* name and parameters) the same way every time, the SubAgent constructor
\* behaves the same way every time, and the remote model answers the same
\* task the same way every time.
Deterministic ==
    LET allCalls == PrevCalls \o calls
        allTasks == PrevTasks \o tasks
    IN  /\ \A a, b \in 1..Len(allCalls) :
             (/\ allCalls[a].client = allCalls[b].client
              /\ allCalls[a].tool_name = allCalls[b].tool_name
              /\ allCalls[a].parameters = allCalls[b].parameters)
                => allCalls[a].outcome = allCalls[b].outcome
        /\ \A a, b \in 1..Len(allTasks) :
             /\ (allTasks[a].agent = None) = (allTasks[b].agent = None)
             /\ allTasks[a].task = allTasks[b].task
                   => allTasks[a].remote = allTasks[b].remote

DetStepMcpTool == StepMcpTool /\ Deterministic'

DetStepSubAgent == StepSubAgent /\ Deterministic'

\* The caller invokes execute_plan again with the plan it passed before.
ExecuteAgain ==
    /\ pc = "returned"
    /\ prev = None
    /\ prev' = Some([report |-> report[1], calls |-> calls, tasks |-> tasks])
    /\ plan' = plan
    /\ pc' = "running"
    /\ i' = 0
    /\ results' = EntryResults(results)
    /\ report' = None
    /\ calls' = <<>>
    /\ tasks' = <<>>
    /\ UNCHANGED <<mcp_clients, procs, sub_agents, clientVars>>

NextTwice ==
    \/ ConnectMcp
    \/ Cleanup
    \/ ExecutePlan
    \/ DetStepMcpTool
    \/ DetStepSubAgent
    \/ StepDirect
    \/ StepUnknown
    \/ ReturnReport
    \/ ExecuteAgain

SpecTwice == Init /\ [][NextTwice]_vars

(***************************************************************************)
(* Planner.create_plan (src/src/planner.py).  last records the call: the   *)
(* prompt, the tool list, the user message sent to the model, what the     *)
(* generation returned and how create_plan ended.                          *)
(***************************************************************************)
Prompts == {"p1", "p2", "p3"}

ToolLists ==
    { <<>>,
      <<[name |-> "tool1"]>>,
      <<[name |-> "tool1", description |-> "first", mcp_server |-> "x"]>>,
      <<[description |-> "nameless"], [name |-> "tool2", mcp_server |-> "y"]>> }

\* What self.client.chat.completions.create(...) gives: an exception, or a
\* message whose content is None, text that is not JSON, or JSON text, given
\* here by the value json.loads makes of it (an object by its fields, an
\* array by its items, a string by its text).
GenOutcomes ==
    { [api |-> "raises", text |-> "rate limit"],
      [api |-> "ok", content |-> None],
      [api |-> "ok", content |-> Some([json |-> "invalid"])],
      [api |-> "ok", content |-> Some([json |-> "object", value |->
            [goal |-> "g", steps |-> <<[type |-> "direct", action |-> "a1"]>>]])],
      [api |-> "ok", content |-> Some([json |-> "object", value |->
            [goal |-> "g", steps |-> <<>>, note |-> "n"]])],
      [api |-> "ok", content |-> Some([json |-> "object", value |-> [goal |-> "g"]])],
      [api |-> "ok", content |-> Some([json |-> "object", value |->
            [steps |-> <<[type |-> "sub_agent", task_description |-> "task1"]>>]])],
      [api |-> "ok", content |-> Some([json |-> "object", value |-> [note |-> "n"]])],
      [api |-> "ok", content |-> Some([json |-> "object", value |->
            [goal |-> "g",
             steps |-> <<[type |-> "mcp_tool", action |-> "t1", mcp_server |-> "x",
                          parameters |-> {<<"param1", "value1">>}],
                         [type |-> "other", action |-> "a2"]>>]])],
      [api |-> "ok", content |-> Some([json |-> "array", value |-> [items |-> <<>>]])],
      [api |-> "ok", content |-> Some([json |-> "array", value |-> [items |-> <<"steps", "goal">>]])],
      [api |-> "ok", content |-> Some([json |-> "string", value |-> [text |-> "abc"]])],
      [api |-> "ok", content |-> Some([json |-> "null"])] }

\* A returned Python value together with its type.
ReturnJson(type, v) == [raised |-> FALSE, json |-> type, value |-> v]

\* Planner._format_tools: one line per tool
ToolLine(tool) ==
    <<"- ", Get(tool, "name", "unknown")>>
      \o (IF "description" \in DOMAIN tool THEN <<": ", tool.description>> ELSE <<>>)
      \o (IF "mcp_server" \in DOMAIN tool THEN <<" (from ", tool.mcp_server, ")">> ELSE <<>>)

format_tools(tools) ==
    IF tools = <<>> THEN <<<<"No tools available.">>>>
    ELSE [k \in 1..Len(tools) |-> ToolLine(tools[k])]

\* user_prompt = f"Task: {prompt} ... Available Tools: {tools_description} ..."
UserPrompt(prompt, tools) == [task |-> prompt, tools |-> format_tools(tools)]

\* json.loads(plan_json)
JsonLoads(content) ==
    IF content = None
    THEN Raise("TypeError", <<"the JSON object must be str, bytes or bytearray, not NoneType">>)
    ELSE IF content[1].json = "invalid"
         THEN Raise("JSONDecodeError", <<"Expecting value">>)
         ELSE Return(content[1])

SetDefaultOverwrites(d, key, v) ==
    [f \in DOMAIN d \cup {key} |-> IF f = key THEN v ELSE d[f]]

\* if key not in plan: plan[key] = v
SetDefault(d, key, v) ==
    [f \in DOMAIN d \cup {key} |-> IF f \in DOMAIN d THEN d[f] ELSE v]

\* The two membership tests and item assignments on the parsed value j.
Normalise(j, prompt) ==
    CASE j.json = "object" ->
           ReturnJson("object", SetDefault(SetDefault(j.value, "steps", <<>>), "goal", prompt))
      [] j.json = "array" ->
           IF Contains(j.value.items, "steps") /\ Contains(j.value.items, "goal")
           THEN ReturnJson("array", j.value)
           ELSE Raise("TypeError", <<"list indices must be integers or slices, not str">>)
      [] j.json = "string" ->
           Raise("TypeError", <<"'str' object does not support item assignment">>)
      [] OTHER ->
           Raise("TypeError", <<"argument of type 'NoneType' is not iterable">>)

\* The fallback plan of the except json.JSONDecodeError clause.
Fallback(prompt) ==
    [goal |-> prompt,
     steps |-> << [step_number |-> 1, type |-> "direct", action |-> "process_task",
                   description |-> <<"Process the task: ", prompt>>] >>]

OnApiErrorFallsBack(prompt, e) == ReturnJson("object", Fallback(prompt))

\* except Exception as e: print(f"Error creating plan: {e}"); raise
OnApiError(prompt, e) == e

\* Planner.create_plan(prompt, available_tools) when the generation gives g.
create_plan(prompt, available_tools, g) ==
    IF g.api = "raises"
    THEN OnApiError(prompt, Raise("APIError", <<g.text>>))
    ELSE LET parsed == JsonLoads(g.content)
         IN  IF parsed.raised
             THEN IF parsed.cls = "JSONDecodeError"
                  THEN ReturnJson("object", Fallback(prompt))
                  ELSE parsed
             ELSE Normalise(parsed.value, prompt)

CreatePlan ==
    /\ \E prompt \in Prompts, tools \in ToolLists, g \in GenOutcomes :
         last' = [op |-> "create_plan", prompt |-> prompt, tools |-> tools,
                  request |-> UserPrompt(prompt, tools), gen |-> g,
                  outcome |-> create_plan(prompt, tools, g)]
    /\ UNCHANGED <<engineVars, prev, mcp_clients, procs, cl, cprocs, fetched, origin>>

NextPlanner == CreatePlan

SpecPlanner == Init /\ [][NextPlanner]_vars

(***************************************************************************)
(* One MCPClient driven directly (src/src/mcp_client.py).  cl is the       *)
(* client object, cprocs the status of every server process started so     *)
(* far (indexed by handle), fetched the first catalog obtained from the    *)
(* server since the last disconnect, origin the process the cache came     *)
(* from, last the record of the latest call.                               *)
(***************************************************************************)
\* Tool catalogs a server may answer tools/list with.
Catalogs ==
    { <<>>, <<[name |-> "tool1"]>>, <<[name |-> "tool1"], [name |-> "tool2"]>>,
      <<[name |-> "tool3", mcp_server |-> "other"]>> }

ToolsListOutcomes ==
    IoOutcomes \cup
      { [io |-> "reply", response |-> [result |-> [tools |-> c]]] : c \in Catalogs }

\* How the server process reacts to disconnect's terminate() and wait(timeout=5).
\* ("kill_raises": the wait fails and kill() raises as well)
TeardownOutcomes == {"exited", "wait_timeout", "terminate_raises", "kill_raises"}

\* The calls disconnect makes on the process it holds, in order:
\* try: terminate(); wait(timeout=5)  except: kill()
TeardownKillsAlways(how) == <<"terminate", "wait", "kill">>

Teardown(how) ==
    CASE how = "exited" -> <<"terminate", "wait">>
      [] how = "terminate_raises" -> <<"terminate", "kill">>
      [] OTHER -> <<"terminate", "wait", "kill">>

\* How disconnect ends for its caller: an exception of kill() leaves the
\* except clause, after the finally clause has run.
DisconnectOutcome(c, how) ==
    IF c.process # None /\ how = "kill_raises"
    THEN Raise("OSError", <<"kill failed">>)
    ELSE Return(None)

\* `if self.tools_cache:` is a truthiness test of the list
CacheHit(c) == c.tools_cache # <<>>

OnFetchFailureRaises(c, n, e) ==
    [value |-> <<>>, raised |-> TRUE, client |-> c, requests |-> n]

\* except Exception as e: print(f"Warning: Could not list tools: {e}"); return []
OnFetchFailure(c, n, e) ==
    [value |-> <<>>, raised |-> FALSE, client |-> c, requests |-> n]

\* MCPClient.list_tools on client object c: the returned list, whether the
\* call raised, the client afterwards and the number of requests handed to
\* the process.
list_tools(c, o) ==
    IF CacheHit(c)
    THEN [value |-> c.tools_cache, raised |-> FALSE, client |-> c, requests |-> 0]
    ELSE LET sent == SendRequest(c, [method |-> "tools/list"], o)
             n == IF c.process = None THEN 0 ELSE 1
         IN  IF sent.raised
             THEN OnFetchFailure(c, n, sent)
             ELSE IF "result" \in DOMAIN sent.value
                       /\ "tools" \in DOMAIN sent.value.result
                  THEN [value |-> sent.value.result.tools, raised |-> FALSE,
                        client |-> [c EXCEPT !.tools_cache = sent.value.result.tools],
                        requests |-> n]
                  ELSE [value |-> <<>>, raised |-> FALSE, client |-> c, requests |-> n]

\* MCPClient.connect()
CConnect ==
    /\ \E sp \in SpawnOutcomes, o \in IoOutcomes :
         IF ~sp.ok
         THEN /\ UNCHANGED <<cl, cprocs>>
              /\ last' = [op |-> "connect", held |-> cl.process, spawned |-> 0,
                           outcome |-> ConnectError(Raise("OSError", <<sp.text>>))]
         ELSE /\ Len(cprocs) < MaxProcs
              /\ LET pid == Len(cprocs) + 1
                     c == [cl EXCEPT !.process = Some(pid)]
                     hs == SendRequest(c, [method |-> "initialize"], o)
                 IN  /\ cl' = c
                     /\ cprocs' = Append(cprocs, "running")
                     /\ last' = [op |-> "connect", held |-> cl.process, spawned |-> 1,
                                  outcome |-> IF hs.raised THEN ConnectError(hs)
                                              ELSE Return(None)]
    /\ UNCHANGED <<fetched, origin, engineVars, prev, mcp_clients, procs>>

\* The server answered tools/list with a catalog.
IsCatalogReply(o) ==
    /\ o.io = "reply"
    /\ "result" \in DOMAIN o.response
    /\ "tools" \in DOMAIN o.response.result

\* MCPClient.list_tools()
CListTools ==
    /\ \E o \in ToolsListOutcomes :
         LET r == list_tools(cl, o)
         IN  /\ cl' = r.client
             /\ fetched' = IF fetched = None /\ r.requests = 1 /\ IsCatalogReply(o)
                            THEN Some(o.response.result.tools) ELSE fetched
             /\ origin' = IF r.client.tools_cache # cl.tools_cache
                           THEN cl.process ELSE origin
             /\ last' = [op |-> "list_tools", before |-> fetched,
                          requests |-> r.requests, result |-> r.value,
                          raised |-> r.raised,
                          failed |-> ~CacheHit(cl)
                                     /\ ~(cl.process # None /\ IsCatalogReply(o)),
                          cache_before |-> cl.tools_cache]
    /\ UNCHANGED <<cprocs, engineVars, prev, mcp_clients, procs>>

\* MCPClient.call_tool(tool_name, parameters)
CCallTool ==
    /\ \E o \in IoOutcomes :
         last' = [op |-> "call_tool", held |-> cl.process, io |-> o,
                  outcome |-> call_tool(cl, "t1", {<<"param1", "value1">>}, o)]
    /\ UNCHANGED <<cl, cprocs, fetched, origin, engineVars, prev, mcp_clients, procs>>

\* MCPClient.disconnect()
CDisconnect ==
    /\ \E how \in TeardownOutcomes :
         /\ cprocs' = IF cl.process = None THEN cprocs
                       ELSE [cprocs EXCEPT ![cl.process[1]] =
                                IF Contains(Teardown(how), "kill")
                                THEN "killed" ELSE "terminated"]
         /\ last' = [op |-> "disconnect", held |-> cl.process,
                      how |-> IF cl.process = None THEN "nothing" ELSE how,
                      signals |-> IF cl.process = None THEN <<>> ELSE Teardown(how),
                      outcome |-> DisconnectOutcome(cl, how)]
    /\ cl' = Disconnect(cl)
    /\ fetched' = None
    /\ origin' = IF Disconnect(cl).tools_cache = <<>> THEN None ELSE origin
    /\ UNCHANGED <<engineVars, prev, mcp_clients, procs>>

NextClient ==
    \/ CConnect
    \/ CListTools
    \/ CCallTool
    \/ CDisconnect

SpecClient == Init /\ [][NextClient]_vars

(***************************************************************************)
(* Agent.get_available_tools and Agent.cleanup on the registered clients.  *)
(* last records the call: what each client was asked and answered, and how *)
(* the call ended.                                                         *)
(***************************************************************************)
\* The names of the registered clients, in registration order.
Names(reg) == [k \in 1..Len(reg) |-> reg[k].name]

\* What client.list_tools() meets: the server's answer to tools/list, or a
\* list_tools that itself raises.
ListOutcomes ==
    ToolsListOutcomes \cup
      { [io |-> "list_raises", cls |-> "RuntimeError", text |-> "Connection error"] }

\* client.list_tools() of a registered client
ClientList(c, o) ==
    IF o.io = "list_raises"
    THEN [value |-> <<>>, raised |-> TRUE, client |-> c, requests |-> 0,
          error |-> Raise(o.cls, <<o.text>>)]
    ELSE list_tools(c, o)

\* d[key] = v
SetItem(d, key, v) == [f \in DOMAIN d \cup {key} |-> IF f = key THEN v ELSE d[f]]

TagKeepsExisting(tools, name) ==
    [k \in 1..Len(tools) |-> SetDefault(tools[k], "mcp_server", name)]

\* for tool in mcp_tools: tool["mcp_server"] = name
Tag(tools, name) == [k \in 1..Len(tools) |-> SetItem(tools[k], "mcp_server", name)]

ListingCatchesNothing(cls) == FALSE

\* except Exception as e: print(f"Warning: Could not get tools from {name}: {e}")
ListingCatches(cls) == cls \in {"ValueError", "RuntimeError", "ConnectionError", "TypeError"}

\* The loop of get_available_tools from client k on; acc holds the tools
\* gathered, the clients as they are now and what each client answered.
\* The tool dicts are those of the client's list, so tagging them tags the
\* client's cache.
RECURSIVE GatLoop(_, _, _, _)
GatLoop(reg, os, k, acc) ==
    IF k > Len(reg)
    THEN [outcome |-> Return(acc.tools), clients |-> acc.clients, listed |-> acc.listed]
    ELSE LET e == reg[k]
             r == ClientList(e.client, os[k])
             entry == [name |-> e.name, raised |-> r.raised, value |-> r.value]
         IN  IF r.raised
             THEN IF ListingCatches(r.error.cls)
                  THEN GatLoop(reg, os, k + 1,
                               [acc EXCEPT !.listed = Append(@, entry)])
                  ELSE [outcome |-> r.error, clients |-> acc.clients,
                        listed |-> Append(acc.listed, entry)]
             ELSE GatLoop(reg, os, k + 1,
                          [tools |-> acc.tools \o Tag(r.value, e.name),
                           clients |-> [acc.clients EXCEPT ![k].client =
                                          [r.client EXCEPT !.tools_cache = Tag(@, e.name)]],
                           listed |-> Append(acc.listed, entry)])

get_available_tools(reg, os) ==
    GatLoop(reg, os, 1, [tools |-> <<>>, clients |-> reg, listed |-> <<>>])

GetAvailableTools ==
    /\ pc = "idle"
    /\ \E os \in [1..Len(mcp_clients) -> ListOutcomes] :
         LET g == get_available_tools(mcp_clients, os)
         IN  /\ mcp_clients' = g.clients
             /\ last' = [op |-> "get_available_tools", names |-> Names(mcp_clients),
                          listed |-> g.listed, outcome |-> g.outcome]
    /\ UNCHANGED <<engineVars, prev, procs, cl, cprocs, fetched, origin>>

CleanupCatchesNothing(cls) == FALSE

\* the bare `except: pass` around client.disconnect()
CleanupCatches(cls) == TRUE

\* The loop of cleanup from client k on; acc holds the clients as they are
\* now and the disconnect calls made.
RECURSIVE CleanupLoop(_, _, _, _)
CleanupLoop(reg, hows, k, acc) ==
    IF k > Len(reg)
    THEN [outcome |-> Return(None), clients |-> acc.clients, disconnects |-> acc.disconnects]
    ELSE LET e == reg[k]
             out == DisconnectOutcome(e.client, hows[k])
             next == [clients |-> [acc.clients EXCEPT ![k].client = Disconnect(@)],
                      disconnects |-> Append(acc.disconnects,
                                             [name |-> e.name, held |-> e.client.process,
                                              outcome |-> out])]
         IN  IF out.raised /\ ~CleanupCatches(out.cls)
             THEN [outcome |-> out, clients |-> next.clients,
                   disconnects |-> next.disconnects]
             ELSE CleanupLoop(reg, hows, k + 1, next)

cleanup(reg, hows) == CleanupLoop(reg, hows, 1, [clients |-> reg, disconnects |-> <<>>])

\* Agent.cleanup with the disconnect calls recorded
CleanupTraced ==
    /\ pc = "idle"
    /\ \E hows \in [1..Len(mcp_clients) -> TeardownOutcomes] :
         LET c == cleanup(mcp_clients, hows)
             held == {k \in 1..Len(c.disconnects) : c.disconnects[k].held # None}
         IN  /\ mcp_clients' = c.clients
             /\ procs' = [procs EXCEPT !.signalled = @ + Cardinality(held)]
             /\ last' = [op |-> "cleanup", names |-> Names(mcp_clients),
                          disconnects |-> c.disconnects,
                          held_after |-> [k \in 1..Len(c.clients) |->
                                            c.clients[k].client.process],
                          outcome |-> c.outcome]
    /\ UNCHANGED <<engineVars, prev, cl, cprocs, fetched, origin>>

\* Agent.connect_mcp with the call recorded
ConnectMcpTraced ==
    /\ pc = "idle"
    /\ \E name \in ConnectorNames, sp \in SpawnOutcomes, o \in IoOutcomes :
         LET r == connect_mcp(mcp_clients, name, procs.started + 1, sp, o)
         IN  /\ r.spawned = 1 => procs.started < MaxProcs
             /\ procs' = [procs EXCEPT !.started = @ + r.spawned]
             /\ mcp_clients' = r.clients
             /\ last' = [op |-> "connect_mcp", name |-> name, before |-> mcp_clients,
                          spawned |-> r.spawned, outcome |-> r.outcome]
    /\ UNCHANGED <<engineVars, prev, cl, cprocs, fetched, origin>>

NextTools ==
    \/ ConnectMcpTraced
    \/ GetAvailableTools
    \/ CleanupTraced

SpecTools == Init /\ [][NextTools]_vars

(***************************************************************************)
(* Agent.run(prompt) on an Agent set up by connect_mcp.  last is the       *)
(* record of the run call: the prompt, the catalog get_available_tools     *)
(* returned, the calls made so far (trace), the arguments of each          *)
(* create_plan call, what the generation gave, what create_plan returned   *)
(* or raised (planned) and how run ended (outcome).                        *)
(***************************************************************************)
PlannerArgsNoTools(prompt, available_tools) ==
    [prompt |-> prompt, available_tools |-> <<>>]

\* plan = self.planner.create_plan(prompt, available_tools)
PlannerArgs(prompt, available_tools) ==
    [prompt |-> prompt, available_tools |-> available_tools]

\* run up to and including available_tools = self.get_available_tools()
RunGather ==
    /\ pc = "idle"
    /\ \E prompt \in Prompts, os \in [1..Len(mcp_clients) -> ListOutcomes] :
         LET g == get_available_tools(mcp_clients, os)
         IN  /\ mcp_clients' = g.clients
             /\ pc' = IF g.outcome.raised THEN "raised" ELSE "planning"
             /\ last' = [op |-> "run", prompt |-> prompt,
                          available_tools |-> IF g.outcome.raised THEN <<>>
                                              ELSE g.outcome.value,
                          trace |-> <<"get_available_tools">>,
                          planner_calls |-> <<>>, gen |-> None, planned |-> None,
                          outcome |-> IF g.outcome.raised THEN Some(g.outcome) ELSE None]
    /\ UNCHANGED <<plan, i, results, report, sub_agents, calls, tasks, prev, procs,
                   cl, cprocs, fetched, origin>>

\* plan = self.planner.create_plan(prompt, available_tools), then the entry
\* of self.execute_plan(plan).  An exception of create_plan leaves run; a
\* plan that is not a dict makes plan.get raise AttributeError at the entry
\* of execute_plan.
RunPlan ==
    /\ pc = "planning"
    /\ \E g \in GenOutcomes :
         LET args == PlannerArgs(last.prompt, last.available_tools)
             out == create_plan(args.prompt, args.available_tools, g)
             called == [last EXCEPT !.trace = Append(@, "create_plan"),
                                    !.planner_calls = Append(@, args),
                                    !.gen = Some(g),
                                    !.planned = Some(out)]
         IN  IF out.raised
             THEN /\ pc' = "raised"
                  /\ last' = [called EXCEPT !.outcome = Some(out)]
                  /\ UNCHANGED <<plan, i, results, report, calls, tasks>>
             ELSE /\ plan' = out.value
                  /\ i' = 0
                  /\ results' = EntryResults(results)
                  /\ report' = None
                  /\ calls' = <<>>
                  /\ tasks' = <<>>
                  /\ pc' = IF out.json = "object" THEN "running" ELSE "raised"
                  /\ last' = [called EXCEPT
                                !.trace = Append(@, "execute_plan"),
                                !.outcome =
                                   IF out.json = "object" THEN None
                                   ELSE Some(Raise("AttributeError",
                                          <<"'list' object has no attribute 'get'">>))]
    /\ UNCHANGED <<mcp_clients, procs, sub_agents, prev, cl, cprocs, fetched, origin>>

\* execution_results = self.execute_plan(plan); return execution_results
RunReturn ==
    /\ pc = "returned"
    /\ last.op = "run" /\ last.outcome = None
    /\ last' = [last EXCEPT !.outcome = Some(Return(report[1]))]
    /\ UNCHANGED <<engineVars, prev, mcp_clients, procs, cl, cprocs, fetched, origin>>

\* One invocation of run on an Agent set up by connect_mcp.
NextRun ==
    \/ ConnectMcp
    \/ RunGather
    \/ RunPlan
    \/ StepMcpTool
    \/ StepSubAgent
    \/ StepDirect
    \/ StepUnknown
    \/ ReturnReport
    \/ RunReturn

SpecRun == Init /\ [][NextRun]_vars

(***************************************************************************)
(* Properties                                                              *)
(***************************************************************************)
Returned == pc = "returned" /\ report # None
rep == report[1]
repSteps == Get(rep.plan, "steps", <<>>)
Kinds == {"mcp_tool", "sub_agent", "direct"}
TypeOf(step) == Get(step, "type", "")
RegisteredNames == {mcp_clients[k].name : k \in 1..Len(mcp_clients)}
IsRegistered(step) ==
    "mcp_server" \in DOMAIN step /\ step.mcp_server \in RegisteredNames
CallsOf(k) == {n \in 1..Len(calls) : calls[n].step = k}
TasksOf(k) == {n \in 1..Len(tasks) : tasks[n].step = k}

\* C1: the report returned by execute_plan has exactly one result entry per
\* plan step: as many results as steps, every step index 1..N recorded exactly
\* once; while the loop runs there is one result per completed iteration.
C1_OneResultPerStep ==
    /\ pc = "running" => Len(results) = i
    /\ Returned =>
         /\ Len(rep.results) = Len(repSteps)
         /\ \A n \in 1..Len(repSteps) :
              Cardinality({k \in 1..Len(rep.results) : rep.results[k].step = n}) = 1

C1_Witness ==
    /\ Returned
    /\ Len(repSteps) = 2
    /\ Len(rep.results) = 2
    /\ rep.results[1].status = "error"
    /\ rep.results[2].status = "success"

\* C2: a failed step never aborts the plan: once execute_plan has ended, every
\* step after a step with an error result has its own result, and was
\* dispatched to its collaborator (a registered connector was called, a
\* delegate was constructed).
C2_NoShortCircuit ==
    pc \in {"returned", "raised"} =>
      \A k \in 1..Len(results) :
        results[k].status = "error" =>
          \A j \in (k + 1)..Len(plan_steps) :
            /\ j <= Len(results)
            /\ results[j].step = j
            /\ (TypeOf(plan_steps[j]) = "mcp_tool" /\ IsRegistered(plan_steps[j]))
                  => CallsOf(j) # {}
            /\ TypeOf(plan_steps[j]) = "sub_agent" => TasksOf(j) # {}

C2_Witness ==
    /\ Returned
    /\ Len(rep.results) = 2
    /\ TypeOf(repSteps[1]) = "Direct"
    /\ rep.results[1].status = "error"
    /\ TypeOf(repSteps[2]) = "mcp_tool"
    /\ CallsOf(2) # {}
    /\ rep.results[2].status = "success"

\* C3: the success flag of the report is true iff no step result has status
\* error; a plan with zero steps or without a steps field gives empty results
\* and success = true.
C3_SuccessIsConjunction ==
    Returned =>
      /\ rep.success = (~ \E k \in 1..Len(rep.results) : rep.results[k].status = "error")
      /\ rep.success = (\A k \in 1..Len(rep.results) : rep.results[k].status = "success")
      /\ ("steps" \notin DOMAIN rep.plan \/ Len(repSteps) = 0)
            => (rep.results = <<>> /\ rep.success = TRUE)

C3_Witness ==
    /\ Returned
    /\ rep.success = FALSE
    /\ \E k \in 1..Len(rep.results) : rep.results[k].status = "success"
    /\ \E k \in 1..Len(rep.results) : rep.results[k].status = "error"

\* C4: execute_plan never raises, whatever the connectors and delegates do.
C4_NeverRaises == pc # "raised"

C4_Witness ==
    /\ Returned
    /\ \E k \in 1..Len(rep.results) :
         /\ TypeOf(repSteps[k]) = "mcp_tool"
         /\ \E n \in CallsOf(k) : calls[n].outcome.raised
         /\ rep.results[k].status = "error"
    /\ \E k \in 1..Len(rep.results) :
         /\ TypeOf(repSteps[k]) = "sub_agent"
         /\ \E n \in TasksOf(k) : tasks[n].agent = None
         /\ rep.results[k].status = "error"

\* C5: in a returned report the result at position k (1-based here) has step
\* index k and carries the action of plan step k ("" when the step has none).
C5_IndexAndAction ==
    Returned =>
      \A k \in 1..Len(rep.results) :
        /\ rep.results[k].step = k
        /\ k <= Len(repSteps)
        /\ rep.results[k].action = Get(repSteps[k], "action", "")

C5_Witness ==
    /\ Returned
    /\ Len(rep.results) = 2
    /\ rep.results[1].step = 1 /\ rep.results[1].action = "t1"
    /\ rep.results[2].step = 2 /\ rep.results[2].action = ""

\* C6: a sub_agent step whose executor returns a result with status error
\* yields a step result with status error carrying the delegate's error text,
\* and the report's success is false.
C6_DelegateErrorIsStepError ==
    Returned =>
      \A n \in 1..Len(tasks) :
        (tasks[n].outcome # None /\ tasks[n].outcome[1].status = "error") =>
          /\ rep.results[tasks[n].step].status = "error"
          /\ rep.results[tasks[n].step].error = tasks[n].outcome[1].error
          /\ rep.success = FALSE

\* C7: an mcp_tool step whose connector name is not a key of mcp_clients (or
\* is missing) yields an error result whose message contains that name and
\* "not connected"; no connector is invoked for the step.
C7_UnregisteredConnector ==
    Returned =>
      \A k \in 1..Len(repSteps) :
        (TypeOf(repSteps[k]) = "mcp_tool" /\ ~IsRegistered(repSteps[k])) =>
          /\ rep.results[k].status = "error"
          /\ Contains(rep.results[k].error, Str(GetOpt(repSteps[k], "mcp_server")))
          /\ Contains(rep.results[k].error, "' not connected")
          /\ CallsOf(k) = {}

C7_Witness ==
    /\ Returned
    /\ RegisteredNames = {"x"}
    /\ Len(repSteps) = 2
    /\ TypeOf(repSteps[1]) = "mcp_tool" /\ GetOpt(repSteps[1], "mcp_server") = Some("y")
    /\ rep.results[1].error = <<"MCP server '", "y", "' not connected">>
    /\ TypeOf(repSteps[2]) = "mcp_tool" /\ GetOpt(repSteps[2], "mcp_server") = None
    /\ rep.results[2].error = <<"MCP server '", "None", "' not connected">>
    /\ calls = <<>>

\* C8: an mcp_tool step whose connector is registered invokes call_tool exactly
\* once, on the connector registered under the step's name, with the step's
\* (action, parameters); the step result is success carrying the returned
\* value iff the call returned and error carrying the fault's message iff it
\* raised; no other connector call is made.
C8_RegisteredConnectorCall ==
    Returned =>
      /\ \A k \in 1..Len(repSteps) :
           (TypeOf(repSteps[k]) = "mcp_tool" /\ IsRegistered(repSteps[k])) =>
             /\ Cardinality(CallsOf(k)) = 1
             /\ \A n \in CallsOf(k) :
                  /\ calls[n].client = repSteps[k].mcp_server
                  /\ calls[n].tool_name = Get(repSteps[k], "action", "")
                  /\ calls[n].parameters = Get(repSteps[k], "parameters", {})
                  /\ (rep.results[k].status = "success") = (~calls[n].outcome.raised)
                  /\ (rep.results[k].status = "error") = calls[n].outcome.raised
                  /\ ~calls[n].outcome.raised =>
                        rep.results[k].result = calls[n].outcome.value
                  /\ calls[n].outcome.raised =>
                        rep.results[k].error = calls[n].outcome.msg
      /\ \A n \in 1..Len(calls) :
           /\ calls[n].step \in 1..Len(repSteps)
           /\ TypeOf(repSteps[calls[n].step]) = "mcp_tool"
           /\ IsRegistered(repSteps[calls[n].step])

C8_Witness ==
    /\ Returned
    /\ Len(mcp_clients) = 2
    /\ mcp_clients[1].name = "y"
    /\ Len(calls) = 2
    /\ calls[1].client = "x" /\ ~calls[1].outcome.raised
    /\ rep.results[1].status = "success"
    /\ calls[2].client = "y" /\ calls[2].outcome.raised
    /\ rep.results[2].status = "error"

\* C9: a step whose kind is none of mcp_tool, sub_agent, direct (or is
\* missing) yields an error result whose message names the kind value; no
\* connector and no delegate is invoked for it.
C9_UnknownKind ==
    Returned =>
      \A k \in 1..Len(repSteps) :
        TypeOf(repSteps[k]) \notin Kinds =>
          /\ rep.results[k].status = "error"
          /\ Contains(rep.results[k].error, "Unknown action type: ")
          /\ Contains(rep.results[k].error, TypeOf(repSteps[k]))
          /\ CallsOf(k) = {}
          /\ TasksOf(k) = {}

C9_Witness ==
    /\ Returned
    /\ Len(repSteps) = 2
    /\ "type" \notin DOMAIN repSteps[1]
    /\ rep.results[1].error = <<"Unknown action type: ", "">>
    /\ repSteps[2].type = "Direct"
    /\ rep.results[2].error = <<"Unknown action type: ", "Direct">>

\* C10: executing a direct step appends a success result whose payload is a
\* description referencing the step's action and changes nothing else: no
\* connector call, no delegate, mcp_clients and sub_agents unchanged.
C10_DirectIsBookkeeping ==
    [][ (pc = "running" /\ i < Len(plan_steps) /\ TypeOf(plan_steps[i + 1]) = "direct")
          => /\ Len(results') = Len(results) + 1
             /\ SubSeq(results', 1, Len(results)) = results
             /\ results'[Len(results')].status = "success"
             /\ Contains(results'[Len(results')].result,
                         Get(plan_steps[i + 1], "action", ""))
             /\ UNCHANGED <<mcp_clients, sub_agents, procs, calls, tasks, plan>> ]_vars

C10_Witness ==
    /\ Returned
    /\ Len(repSteps) = 2
    /\ TypeOf(repSteps[2]) = "direct"
    /\ rep.results[2].status = "success"
    /\ rep.results[2].result = <<"Direct action: ", "a1">>
    /\ Len(sub_agents) = 1
    /\ Len(calls) = 0

AtKind(kind) ==
    pc = "running" /\ i < Len(plan_steps) /\ TypeOf(plan_steps[i + 1]) = kind
Range(f) == {f[k] : k \in DOMAIN f}
IsPrefix(a, b) == Len(a) <= Len(b) /\ SubSeq(b, 1, Len(a)) = a

C12_EmptyResultIsSuccess ==
    Returned =>
      \A n \in 1..Len(tasks) :
        (tasks[n].remote # None /\ tasks[n].remote[1].ok
            /\ tasks[n].remote[1].content = "") =>
          /\ rep.results[tasks[n].step].status = "success"
          /\ rep.results[tasks[n].step].result =
                [task |-> Get(repSteps[tasks[n].step], "task_description", ""),
                 result |-> Some(""), status |-> "completed"]

C12_Witness ==
    /\ Returned
    /\ Len(tasks) = 1
    /\ tasks[1].remote = Some([ok |-> TRUE, content |-> ""])
    /\ rep.results[1].status = "success"
    /\ rep.results[1].result.result = Some("")
    /\ rep.success = TRUE

\* C13: every step result has status success or error, has a result payload
\* iff its status is success and an error message iff its status is error.
C13_ResultShape ==
    \A k \in 1..Len(results) :
      /\ results[k].status \in {"success", "error"}
      /\ ("result" \in DOMAIN results[k]) = (results[k].status = "success")
      /\ ("error" \in DOMAIN results[k]) = (results[k].status = "error")

C13_Witness ==
    /\ Returned
    /\ Len(rep.results) = 2
    /\ DOMAIN rep.results[1] = {"step", "action", "status", "error"}
    /\ DOMAIN rep.results[2] = {"step", "action", "status", "result"}

\* C14: steps are handled strictly in plan order, one per loop iteration: an
\* iteration appends the result of step i+1 and nothing else, all collaborator
\* calls so far belong to steps that already have their result, no step has
\* more than one collaborator invocation, and results already appended are
\* never changed or removed.
C14_SequentialNoRetry ==
    /\ [](pc = "running" =>
            /\ Len(results) = i
            /\ \A n \in 1..Len(calls) : calls[n].step <= i
            /\ \A n \in 1..Len(tasks) : tasks[n].step <= i
            /\ \A k \in 1..Len(plan_steps) :
                 Cardinality(CallsOf(k)) + Cardinality(TasksOf(k)) <= 1)
    /\ [][ (pc = "running" /\ pc' = "running") =>
             /\ i' = i + 1
             /\ Len(results') = Len(results) + 1
             /\ SubSeq(results', 1, Len(results)) = results
             /\ results'[i + 1].step = i + 1
             /\ results'[i + 1].status \in {"success", "error"}
             /\ Len(calls') + Len(tasks') <= Len(calls) + Len(tasks) + 1
             /\ IsPrefix(calls, calls') /\ IsPrefix(tasks, tasks')
             /\ \A n \in (Len(calls) + 1)..Len(calls') : calls'[n].step = i + 1
             /\ \A n \in (Len(tasks) + 1)..Len(tasks') : tasks'[n].step = i + 1 ]_vars
    /\ [][ (pc = "running" /\ pc' # "running") => results' = results ]_vars

C14_Witness ==
    /\ Returned
    /\ Len(calls) = 1 /\ calls[1].step = 1 /\ calls[1].outcome.raised
    /\ Len(tasks) = 1 /\ tasks[1].step = 2
    /\ rep.results[1].status = "error"
    /\ rep.results[2].status = "success"

\* C15: with deterministic connectors and delegates, the second of two
\* invocations of execute_plan with the same plan on the same Agent returns
\* the same results sequence and the same success flag as the first.
C15_SamePlanSameReport ==
    (Returned /\ prev # None) =>
        /\ rep.results = prev[1].report.results
        /\ rep.success = prev[1].report.success

C15_Witness ==
    /\ Returned /\ prev # None
    /\ Len(rep.results) = 2
    /\ Len(calls) = 1 /\ ~calls[1].outcome.raised
    /\ Len(tasks) = 1 /\ tasks[1].agent # None
    /\ tasks[1].agent # prev[1].tasks[1].agent
    /\ rep.results = prev[1].report.results

\* C16: execute_plan never changes the connector mapping mcp_clients nor the
\* plan, and the plan field of the report is the input plan.
C16_FrameOfExecutePlan ==
    /\ [][ pc = "running" => (mcp_clients' = mcp_clients /\ plan' = plan) ]_vars
    /\ [](Returned => rep.plan = plan)

C16_Witness ==
    /\ Returned
    /\ Len(mcp_clients) = 2
    /\ Len(calls) = 2
    /\ rep.plan = plan
    /\ "steps" \in DOMAIN rep.plan

\* C17: a running execute_plan eventually returns, and when it has returned
\* all N steps have been handled and have their result.
C17_Terminates ==
    /\ (pc = "running") ~> (pc = "returned")
    /\ [](pc = "returned" =>
            (i = Len(plan_steps) /\ Len(results) = Len(plan_steps)))

C17_Witness ==
    /\ Returned
    /\ Len(plan_steps) = 2
    /\ i = 2
    /\ rep.results[1].status = "error"
    /\ rep.results[2].status = "error"

Running == {p \in 1..Len(cprocs) : cprocs[p] = "running"}

\* C18: connect() on a client that already holds a process starts no second
\* process and leaves the client holding the same one.
C18_ConnectIdempotent ==
    (last.op = "connect" /\ last.held # None) =>
        (last.spawned = 0 /\ cl.process = last.held)

\* C19: after disconnect() in any state the client holds no process and an
\* empty tools cache, and a connect() that follows and succeeds holds a
\* newly started, running process (and no catalog of the earlier session).
C19_DisconnectResets ==
    /\ [](last.op = "disconnect" => (cl.process = None /\ cl.tools_cache = <<>>))
    /\ [][ (last.op = "disconnect" /\ last'.op = "connect" /\ ~last'.outcome.raised) =>
             /\ cl'.process # None
             /\ cl'.process[1] \notin DOMAIN cprocs
             /\ cprocs'[cl'.process[1]] = "running"
             /\ cl'.tools_cache = <<>> ]_vars

C19_Witness ==
    /\ last.op = "connect" /\ ~last.outcome.raised
    /\ last.held = None
    /\ cprocs = <<"killed", "running">>
    /\ cl = [process |-> Some(2), tools_cache |-> <<>>]

\* C20: once list_tools() has fetched a catalog from the server, every
\* later list_tools() until disconnect returns that catalog and hands no
\* request to the server, whatever the size of the catalog.
C20_CachedAfterFirstFetch ==
    (last.op = "list_tools" /\ last.before # None) =>
        (last.result = last.before[1] /\ last.requests = 0)

\* C21: when the catalog fetch fails (no process, channel error, or a
\* response without a tools result), list_tools() returns the empty list,
\* does not raise and leaves the cache as it was; a list_tools() that
\* follows on the connected client sends tools/list again.
C21_FetchFailureIsEmpty ==
    /\ []((last.op = "list_tools" /\ last.failed) =>
            /\ last.result = <<>>
            /\ ~last.raised
            /\ cl.tools_cache = last.cache_before)
    /\ [][ (/\ last.op = "list_tools" /\ last.failed
            /\ cl.process # None
            /\ last'.op = "list_tools") => last'.requests = 1 ]_vars

C21_Witness ==
    /\ last.op = "list_tools" /\ last.failed
    /\ cl.process # None
    /\ last.requests = 1
    /\ last.result = <<>>
    /\ cl.tools_cache = <<>>

\* The kind of a fault raised by call_tool, read from its message: the
\* tool-error kind carries "Tool error: ", everything else is communication.
ErrorKind(e) == IF Contains(e.msg, "Tool error: ") THEN "tool" ELSE "communication"

\* C22: call_tool fails with the communication-error kind when the channel
\* is broken (no process, failing write or read, end of stream), with the
\* tool-error kind when the server's reply reports an error, and returns a
\* value only when the server replied without an error.
C22_ErrorKinds ==
    last.op = "call_tool" =>
      LET broken == last.held = None \/ last.io.io \in {"fault", "eof"}
          reported == ~broken /\ "error" \in DOMAIN last.io.response
      IN  /\ broken => (last.outcome.raised /\ ErrorKind(last.outcome) = "communication")
          /\ reported => (last.outcome.raised /\ ErrorKind(last.outcome) = "tool")
          /\ ~last.outcome.raised => (~broken /\ ~reported)

\* C23: connect() raises ConnectionError whenever the server process could
\* not be started, and never reports success then.
C23_SpawnFailureIsConnectionError ==
    (last.op = "connect" /\ last.spawned = 0) =>
        (last.outcome.raised /\ last.outcome.cls = "ConnectionError")

C23_Witness ==
    /\ last.op = "connect" /\ last.spawned = 0
    /\ last.outcome.raised
    /\ Contains(last.outcome.msg, "No such file or directory")
    /\ cl.process = None

\* C28: disconnect() on a client that holds a process calls terminate
\* first, then the wait, and kill only after terminate or the wait failed;
\* when the process exits within the wait, kill is not called.
C28_GracefulThenKill ==
    (last.op = "disconnect" /\ last.held # None) =>
        /\ last.signals[1] = "terminate"
        /\ \A k \in 1..Len(last.signals) :
             last.signals[k] = "kill" => (k = Len(last.signals) /\ last.how # "exited")
        /\ last.how = "exited" => last.signals = <<"terminate", "wait">>
        /\ last.how # "exited" => Contains(last.signals, "kill")
        /\ last.how # "terminate_raises" => last.signals[2] = "wait"

C28_Witness ==
    /\ last.op = "disconnect" /\ last.held = Some(1)
    /\ last.how = "wait_timeout"
    /\ last.signals = <<"terminate", "wait", "kill">>
    /\ cprocs[1] = "killed"

\* The generation returned data that is not a plan object.
Malformed(g) == g.content = None \/ g.content[1].json # "object"

\* C24: whatever the generation returns, create_plan returns a plan with a
\* goal and a sequence of steps; when the returned data is not parseable or
\* not a plan object, the returned plan is the fallback: goal equal to the
\* prompt and exactly one step, of type direct.
C24_AlwaysValidPlan ==
    (last.op = "create_plan" /\ last.gen.api = "ok") =>
        /\ ~last.outcome.raised
        /\ last.outcome.json = "object"
        /\ {"goal", "steps"} \subseteq DOMAIN last.outcome.value
        /\ Malformed(last.gen) =>
             /\ last.outcome.value.goal = last.prompt
             /\ Len(last.outcome.value.steps) = 1
             /\ last.outcome.value.steps[1].type = "direct"

C26_DelegateNeverRaises ==
    \A n \in 1..Len(tasks) :
      tasks[n].remote # None =>
        /\ tasks[n].outcome # None
        /\ LET ro == tasks[n].remote[1]
               out == tasks[n].outcome[1]
           IN  /\ out.task = tasks[n].task
               /\ out.status \in {"completed", "error"}
               /\ ("error" \in DOMAIN out) = (out.status = "error")
               /\ ~ro.ok => /\ out.status = "error"
                            /\ "error" \in DOMAIN out /\ out.error = <<ro.text>>
                            /\ out.result = None
               /\ ro.ok => (out.status = "completed" /\ out.result = Some(ro.content))

C26_Witness ==
    /\ Returned
    /\ Len(tasks) = 1
    /\ tasks[1].remote = Some([ok |-> FALSE, text |-> "api down"])
    /\ tasks[1].outcome[1] = [task |-> "task1", result |-> None, status |-> "error",
                              error |-> <<"api down">>]

GatResult == last.outcome.value
\* Number of tools the clients before client k contributed.
RECURSIVE Offset(_)
Offset(k) ==
    IF k = 1 THEN 0
    ELSE Offset(k - 1) + (IF last.listed[k - 1].raised THEN 0
                          ELSE Len(last.listed[k - 1].value))

\* C27: get_available_tools returns, client after client in registration
\* order, every tool each client listed, each carrying as mcp_server the
\* name under which that client is registered and otherwise as listed.
C27_ToolsCarryRegisteredName ==
    (last.op = "get_available_tools" /\ ~last.outcome.raised) =>
        /\ Len(last.listed) = Len(last.names)
        /\ Len(GatResult) = Offset(Len(last.names) + 1)
        /\ \A k \in 1..Len(last.names) :
             /\ last.listed[k].name = last.names[k]
             /\ \A j \in 1..Len(last.listed[k].value) :
                  LET t == GatResult[Offset(k) + j]
                      listed == last.listed[k].value[j]
                  IN  /\ t.mcp_server = last.names[k]
                      /\ DOMAIN t = DOMAIN listed \cup {"mcp_server"}
                      /\ \A f \in DOMAIN listed \ {"mcp_server"} : t[f] = listed[f]

C27_Witness ==
    /\ last.op = "get_available_tools" /\ ~last.outcome.raised
    /\ last.names = <<"y", "x">>
    /\ GatResult = << [name |-> "tool3", mcp_server |-> "y"],
                      [name |-> "tool1", mcp_server |-> "x"],
                      [name |-> "tool2", mcp_server |-> "x"] >>

\* C29: cleanup() calls disconnect on every registered client once, in
\* order, and does not raise; a disconnect that raises does not keep the
\* clients after it from being disconnected.
C29_CleanupDisconnectsAll ==
    last.op = "cleanup" =>
        /\ ~last.outcome.raised
        /\ Len(last.disconnects) = Len(last.names)
        /\ \A k \in 1..Len(last.names) :
             /\ last.disconnects[k].name = last.names[k]
             /\ last.held_after[k] = None

C29_Witness ==
    /\ last.op = "cleanup"
    /\ Len(last.disconnects) = 2
    /\ last.disconnects[1].outcome.raised
    /\ last.disconnects[2].held # None
    /\ last.held_after = <<None, None>>
    /\ mcp_clients[2].client.process = None

\* C30: when list_tools of a registered client raises, get_available_tools
\* does not raise, still asks every other client and returns the tools of
\* every client whose list_tools returned.
C30_ListingFailureIsolated ==
    last.op = "get_available_tools" =>
        /\ ~last.outcome.raised
        /\ Len(last.listed) = Len(last.names)
        /\ \A k \in 1..Len(last.listed) :
             ~last.listed[k].raised =>
               Cardinality({n \in 1..Len(GatResult) :
                              GatResult[n].mcp_server = last.listed[k].name})
                 = Len(last.listed[k].value)

C30_Witness ==
    /\ last.op = "get_available_tools"
    /\ Len(last.listed) = 2
    /\ last.listed[1].raised
    /\ ~last.listed[2].raised /\ Len(last.listed[2].value) = 2
    /\ Len(GatResult) = 2

\* C34: when connect() raises ConnectionError, because the process could
\* not be started or because the handshake failed after it was started,
\* the client is left disconnected: it holds no process handle and no
\* server process started by that call is still running.
C34_FailedConnectLeavesDisconnected ==
    (last.op = "connect" /\ last.outcome.raised) =>
        /\ last.outcome.cls = "ConnectionError"
        /\ cl.process = None
        /\ last.spawned = 1 => cprocs[Len(cprocs)] # "running"

\* C36: the tools cache is consistent with the session in every state of
\* an MCPClient: it is empty whenever the client holds no process, and a
\* non-empty cache is the catalog fetched from the process currently held,
\* never one fetched from an earlier process.
C36_CacheBelongsToSession ==
    /\ cl.process = None => cl.tools_cache = <<>>
    /\ cl.tools_cache # <<>> => origin = cl.process

\* C33: no server process is leaked: after any sequence of connect_mcp
\* calls (a name registered again, a connect whose handshake fails) followed
\* by cleanup(), every server process that was started has been sent
\* terminate or kill.
C33_NoProcessLeaked ==
    last.op = "cleanup" => procs.signalled = procs.started

\* C37: when connect_mcp(name, ...) raises because the client's connect
\* failed, Agent.mcp_clients is unchanged: name is not newly registered and
\* a client registered under that name before stays registered.
C37_FailedConnectKeepsRegistry ==
    (last.op = "connect_mcp" /\ last.outcome.raised) =>
        /\ last.outcome.cls = "ConnectionError"
        /\ mcp_clients = last.before

C37_Witness ==
    /\ last.op = "connect_mcp" /\ last.outcome.raised
    /\ last.spawned = 1
    /\ last.name = "x"
    /\ Names(mcp_clients) = <<"x">>
    /\ mcp_clients[1].client.process = Some(1)
    /\ procs.started = 2

\* The registered client a step names holds no process.
IsDisconnected(step) ==
    IsRegistered(step) /\ ClientOf(mcp_clients, step.mcp_server).client.process = None

\* C35: after cleanup() the clients stay registered in mcp_clients but are
\* disconnected; a later execute_plan with an mcp_tool step naming such a
\* client returns (no exception leaves execute_plan) with an error result
\* for that step, never a success, and does no I/O on a server process: the
\* one call_tool made for the step fails at the not-connected test that
\* precedes the write to the process.
C35_DisconnectedClientStepFails ==
    /\ (pc \in {"running", "raised"} \/ Returned) =>
         \A n \in 1..Len(calls) :
           ClientOf(mcp_clients, calls[n].client).client.process = None =>
             calls[n].outcome =
               CallToolWrap(calls[n].tool_name,
                            Raise("ConnectionError", <<"MCP server not connected">>))
    /\ pc # "raised"
    /\ Returned =>
         \A k \in 1..Len(repSteps) :
           (TypeOf(repSteps[k]) = "mcp_tool" /\ IsDisconnected(repSteps[k])) =>
             /\ rep.results[k].status = "error"
             /\ "result" \notin DOMAIN rep.results[k]
             /\ rep.results[k].error =
                  <<"Error calling tool ", Get(repSteps[k], "action", ""), ": ",
                    "MCP server not connected">>
             /\ Cardinality(CallsOf(k)) = 1

C35_Witness ==
    /\ Returned
    /\ procs = [started |-> 1, signalled |-> 1]
    /\ Names(mcp_clients) = <<"x">>
    /\ mcp_clients[1].client.process = None
    /\ Len(repSteps) >= 1
    /\ TypeOf(repSteps[1]) = "mcp_tool" /\ IsDisconnected(repSteps[1])
    /\ rep.results[1].status = "error"
    /\ Len(calls) >= 1 /\ calls[1].client = "x"

\* C31: Agent.run(prompt) proceeds in a fixed order: it gathers the tool
\* catalog from the connected clients, then calls create_plan exactly once
\* with the prompt and that catalog, then executes the plan create_plan
\* returned and returns that execution's report; no plan step is dispatched
\* before planning has completed.
C31_RunOrder ==
    last.op = "run" =>
        /\ IsPrefix(last.trace, <<"get_available_tools", "create_plan", "execute_plan">>)
        /\ Len(last.planner_calls) <= 1
        /\ Contains(last.trace, "create_plan") =>
             last.planner_calls = <<[prompt |-> last.prompt,
                                     available_tools |-> last.available_tools]>>
        /\ ~Contains(last.trace, "execute_plan") =>
             /\ pc \in {"planning", "raised"}
             /\ i = 0 /\ results = <<>> /\ calls = <<>> /\ tasks = <<>>
             /\ sub_agents = <<>> /\ report = None
        /\ Contains(last.trace, "execute_plan") =>
             /\ last.planned # None
             /\ ~last.planned[1].raised
             /\ plan = last.planned[1].value
        /\ (last.outcome # None /\ ~last.outcome[1].raised) =>
             /\ Returned
             /\ last.outcome[1].value = rep
             /\ rep.plan = last.planned[1].value
             /\ Len(rep.results) = Len(repSteps)

C31_Witness ==
    /\ last.op = "run"
    /\ last.outcome # None /\ ~last.outcome[1].raised
    /\ last.trace = <<"get_available_tools", "create_plan", "execute_plan">>
    /\ Len(last.available_tools) = 2
    /\ last.planner_calls[1].available_tools = last.available_tools
    /\ Len(rep.results) = 2
    /\ Len(calls) = 1

\* C32: when the LLM API call itself fails, create_plan raises that error
\* instead of returning the fallback plan, and Agent.run then raises it as
\* well, without dispatching any step and without producing a report.
C32_ApiFailurePropagates ==
    (last.op = "run" /\ last.gen # None /\ last.gen[1].api = "raises") =>
        /\ last.planned = Some(Raise("APIError", <<last.gen[1].text>>))
        /\ last.outcome = last.planned
        /\ pc = "raised"
        /\ last.trace = <<"get_available_tools", "create_plan">>
        /\ i = 0 /\ results = <<>> /\ calls = <<>> /\ tasks = <<>>
        /\ sub_agents = <<>> /\ report = None

C32_Witness ==
    /\ last.op = "run"
    /\ last.gen = Some([api |-> "raises", text |-> "rate limit"])
    /\ pc = "raised"
    /\ last.outcome # None /\ last.outcome[1].raised
    /\ Len(mcp_clients) = 1
    /\ Len(last.available_tools) = 1

====
